---- MODULE Spec2Model ----
(***************************************************************************)
(* Applications-Overview-XFCE.py: resolution of an icon for every running  *)
(* window (icon theme -> search paths -> window title -> .desktop file ->  *)
(* icon candidates -> icon file -> image).                                 *)
(*                                                                         *)
(* Strings are sequences of characters; a character is a one-element TLA+  *)
(* string, or a named token for a character TLA+ strings cannot hold       *)
(* (EmDash, EnDash, Tab, Newline) and for path pieces that are never       *)
(* looked into ("/usr/share", "0x01").  A path built by os.path.join is    *)
(* the tuple of its parts.  None is the value None.                        *)
(***************************************************************************)
EXTENDS Naturals, Sequences, FiniteSets

VARIABLES
    pc,            \* position of main()
    err,           \* the uncaught exception that ended the run, or "none"
    themeQuery,    \* what running xfconf-query does: [kind, out]
    environ,       \* os.environ: XDG_DATA_DIRS and XDG_DATA_HOME (None: unset)
    existing,      \* the paths for which os.path.exists is true
    theme,         \* main: theme
    search_paths,  \* main: search_paths
    tree,          \* os.walk: base |-> the sequence of (root, files) it yields
    wmctrl,        \* what running wmctrl -lx does: [kind, out]
    windows,       \* main: windows, a sequence of (win_id, exe_name, win_name)
    idx,           \* main: the index in windows of the window being handled
    last_word,     \* main: last_word
    listdir,       \* os.listdir of each DESKTOP_DIRS entry that exists
    fileText,      \* path |-> the lines of each descriptor that open() can read
    desktop_file,  \* main: desktop_file
    cands,         \* get_icon_path: the list build_icon_candidates returned
    icon_path,     \* main: icon_path
    decodable,     \* the icon files PIL / cairosvg can turn into an image
    img,           \* main: img: "icon", "placeholder", "none" before the first
    icons          \* main: the images made so far, one per window

vars == <<pc, err, themeQuery, environ, existing, theme, search_paths, tree,
          wmctrl, windows, idx, last_word, listdir, fileText, desktop_file,
          cands, icon_path, decodable, img, icons>>

None == <<"<None>">>

\* ------------------------------------------------------------ characters
EmDash == "EM"
EnDash == "EN"
Hyphen == "-"
Tab == "TAB"
Newline == "NL"

Whitespace == {" ", Tab, Newline}

UpperLetters == <<"A", "B", "C", "D", "E", "F", "G", "H", "I", "J", "K", "L", "M",
                  "N", "O", "P", "Q", "R", "S", "T", "U", "V", "W", "X", "Y", "Z">>
LowerLetters == <<"a", "b", "c", "d", "e", "f", "g", "h", "i", "j", "k", "l", "m",
                  "n", "o", "p", "q", "r", "s", "t", "u", "v", "w", "x", "y", "z">>

\* str.lower(), one character
LowerChar(c) ==
    IF \E i \in 1..26 : UpperLetters[i] = c
    THEN LowerLetters[CHOOSE i \in 1..26 : UpperLetters[i] = c]
    ELSE c

\* str.lower()
Lower(s) == [i \in 1..Len(s) |-> LowerChar(s[i])]

\* str.replace(' ', '')
RemoveSpaces(s) == SelectSeq(s, LAMBDA c : c # " ")

\* str.strip()
Strip(s) ==
    LET keep == {i \in 1..Len(s) : s[i] \notin Whitespace}
    IN  IF keep = {} THEN <<>>
        ELSE SubSeq(s, CHOOSE i \in keep : \A j \in keep : i <= j,
                       CHOOSE i \in keep : \A j \in keep : j <= i)

\* str.split(): the maximal runs of non-whitespace characters, in order
RECURSIVE SplitFrom(_, _, _, _)
SplitFrom(s, i, cur, acc) ==
    IF i > Len(s) THEN (IF cur = <<>> THEN acc ELSE Append(acc, cur))
    ELSE IF s[i] \in Whitespace
         THEN SplitFrom(s, i + 1, <<>>, IF cur = <<>> THEN acc ELSE Append(acc, cur))
         ELSE SplitFrom(s, i + 1, Append(cur, s[i]), acc)

Split(s) == SplitFrom(s, 1, <<>>, <<>>)

\* " ".join(words)
RECURSIVE Join(_)
Join(words) ==
    IF words = <<>> THEN <<>>
    ELSE IF Len(words) = 1 THEN words[1]
    ELSE words[1] \o <<" ">> \o Join(Tail(words))

\* sep in s, sep one character
HasChar(sep, s) == \E i \in 1..Len(s) : s[i] = sep

\* s.rsplit(sep, 1)[-1] and s.split(sep)[-1], sep one character: what follows
\* the last sep, the whole of s when it holds none
AfterLast(s, sep) ==
    LET at == {i \in 1..Len(s) : s[i] = sep}
    IN  IF at = {} THEN s
        ELSE SubSeq(s, (CHOOSE i \in at : \A j \in at : j <= i) + 1, Len(s))

\* sub in s
Contains(sub, s) ==
    \E i \in 0..(Len(s) - Len(sub)) : SubSeq(s, i + 1, i + Len(sub)) = sub

\* s.startswith(p), s.endswith(p)
StartsWith(s, p) == Len(p) <= Len(s) /\ SubSeq(s, 1, Len(p)) = p
EndsWith(s, p) == Len(p) <= Len(s) /\ SubSeq(s, Len(s) - Len(p) + 1, Len(s)) = p

\* the strings over alphabet of length at most n
StringsUpTo(alphabet, n) == UNION {[1..k -> alphabet] : k \in 0..n}

\* ------------------------------------------------ WindowNameNormalizer
Separators == <<EmDash, EnDash, Hyphen>>

\* the segment taken after the first occurrence of the separator, not the last
extract_after_first_dash(win_name) ==
    LET original == Strip(win_name)
        name == Join(Split(original))
        found == {k \in 1..Len(Separators) : HasChar(Separators[k], name)}
    IN  IF found = {} THEN name
        ELSE LET sep == Separators[CHOOSE k \in found : \A j \in found : k <= j]
                 at == {i \in 1..Len(name) : name[i] = sep}
                 first == CHOOSE i \in at : \A j \in at : i <= j
                 segment == Strip(SubSeq(name, first + 1, Len(name)))
                 words == Split(segment)
             IN  IF words # <<>> THEN words[Len(words)] ELSE segment

extract_last_word_after_dash(win_name) ==
    LET original == Strip(win_name)
        name == Join(Split(original))
        found == {k \in 1..Len(Separators) : HasChar(Separators[k], name)}
    IN  IF found = {} THEN name
        ELSE LET sep == Separators[CHOOSE k \in found : \A j \in found : k <= j]
                 segment == Strip(AfterLast(name, sep))
                 words == Split(segment)
             IN  IF words # <<>> THEN words[Len(words)] ELSE segment

\* ------------------------------------------------- DesktopEntryLocator
\* the user's directory scanned before the system's
DESKTOP_DIRS_user_first ==
    <<"~/.local/share/applications",
      "/usr/share/applications",
      "/var/lib/flatpak/exports/share/applications",
      "/var/lib/snapd/desktop/applications">>

DESKTOP_DIRS ==
    <<"/usr/share/applications",
      "~/.local/share/applications",
      "/var/lib/flatpak/exports/share/applications",
      "/var/lib/snapd/desktop/applications">>

DotDesktop == <<".", "d", "e", "s", "k", "t", "o", "p">>

\* lines 98-106: the scan for target
ScanFor(target) ==
    LET Listing(d) == listdir[DESKTOP_DIRS[d]]
        Match(d, k) ==
            /\ EndsWith(Listing(d)[k], DotDesktop)
            /\ Contains(target, RemoveSpaces(Lower(Listing(d)[k])))
        Hits(d) ==
            IF DESKTOP_DIRS[d] \notin DOMAIN listdir THEN {}
            ELSE {k \in 1..Len(Listing(d)) : Match(d, k)}
        dirs == {d \in 1..Len(DESKTOP_DIRS) : Hits(d) # {}}
    IN  IF dirs = {} THEN None
        ELSE LET d == CHOOSE x \in dirs : \A y \in dirs : x <= y
                 k == CHOOSE x \in Hits(d) : \A y \in Hits(d) : x <= y
             IN  <<DESKTOP_DIRS[d], Listing(d)[k]>>

\* an empty guess matching nothing
find_desktop_file_unless_empty(name_guess) ==
    IF RemoveSpaces(Lower(name_guess)) = <<>> THEN None
    ELSE ScanFor(RemoveSpaces(Lower(name_guess)))

find_desktop_file(name_guess) == ScanFor(RemoveSpaces(Lower(name_guess)))

\* ---------------------------------------------- DesktopEntryIconReader
IconKey == <<"I", "c", "o", "n", "=">>

\* s.split('=', 1)[1]
AfterFirst(s, sep) ==
    LET at == {i \in 1..Len(s) : s[i] = sep}
    IN  SubSeq(s, (CHOOSE i \in at : \A j \in at : i <= j) + 1, Len(s))

read_icon_from_desktop(file) ==
    IF file = None THEN None
    ELSE IF file \notin DOMAIN fileText THEN None
    ELSE LET lines == fileText[file]
             at == {i \in 1..Len(lines) : StartsWith(lines[i], IconKey)}
         IN  IF at = {} THEN None
             ELSE AfterFirst(Strip(lines[CHOOSE i \in at : \A j \in at : i <= j]), "=")

\* ------------------------------------------------------ CandidateBuilder
\* "if s:" for a string or None
Truthy(s) == s # None /\ s # <<>>

\* lines 131-138
BaseCandidates(icon_from_desktop, exe_name, word) ==
    (IF Truthy(icon_from_desktop) THEN <<icon_from_desktop>> ELSE <<>>)
    \o (IF Truthy(exe_name) THEN <<exe_name>> ELSE <<>>)
    \o (IF Truthy(word) THEN <<word>> ELSE <<>>)

\* the substring after the final "." appended after the two lowercase forms
Variants_dot_last(s) ==
    LET s2 == Lower(s)
        s3 == RemoveSpaces(s2)
    IN  <<s2, s3>> \o (IF HasChar(".", s2) THEN <<AfterLast(s2, ".")>> ELSE <<>>)

\* lines 145-149, one pass of the loop
Variants(s) ==
    LET s2 == Lower(s)
        s3 == RemoveSpaces(s2)
    IN  (IF HasChar(".", s2) THEN <<AfterLast(s2, ".")>> ELSE <<>>) \o <<s2, s3>>

\* lines 141-149
RECURSIVE Extra(_)
Extra(candidates) ==
    IF candidates = <<>> THEN <<>>
    ELSE (IF candidates[1] = <<>> THEN <<>> ELSE Variants(candidates[1]))
         \o Extra(Tail(candidates))

\* lines 152-157: [seen, all_cands] after the loop over list
RECURSIVE Dedup(_, _)
Dedup(list, acc) ==
    IF list = <<>> THEN acc
    ELSE LET c == list[1]
         IN  Dedup(Tail(list),
                   IF c # <<>> /\ c \notin acc.seen
                   THEN [seen |-> acc.seen \cup {c}, all_cands |-> Append(acc.all_cands, c)]
                   ELSE acc)

\* every word appended, seen or not
RECURSIVE AddWords_unseen(_, _)
AddWords_unseen(words, acc) ==
    IF words = <<>> THEN acc
    ELSE AddWords_unseen(Tail(words),
                         [seen |-> acc.seen \cup {Lower(words[1])},
                          all_cands |-> Append(acc.all_cands, Lower(words[1]))])

\* lines 161-166: the loop over words
RECURSIVE AddWords(_, _)
AddWords(words, acc) ==
    IF words = <<>> THEN acc
    ELSE LET w_lower == Lower(words[1])
         IN  AddWords(Tail(words),
                      IF w_lower \notin acc.seen
                      THEN [seen |-> acc.seen \cup {w_lower},
                            all_cands |-> Append(acc.all_cands, w_lower)]
                      ELSE acc)

build_icon_candidates(file, exe_name, word) ==
    LET candidates == BaseCandidates(read_icon_from_desktop(file), exe_name, word)
        extra == Extra(candidates)
        deduped == Dedup(candidates \o extra, [seen |-> {}, all_cands |-> <<>>])
    IN  IF Truthy(word) THEN AddWords(Split(word), deduped).all_cands
        ELSE deduped.all_cands

\* ---------------------------------------------------- IconIndex/Searcher
ICON_EXTS ==
    << <<"p", "n", "g">>, <<"s", "v", "g">>, <<"x", "p", "m">>, <<"j", "p", "g">>,
       <<"j", "p", "e", "g">>, <<"b", "m", "p">>, <<"g", "i", "f">> >>

\* os.walk(base): the (root, files) of each directory under base, top down
Walk(base) == IF base \in DOMAIN tree THEN tree[base] ELSE <<>>

\* f"{icon_name}.{ext}"
IconFile(icon_name, ext) == icon_name \o <<".">> \o ext

\* lines 57-60: the first extension with a file in this directory
ExtsIn(icon_name, files) ==
    {e \in 1..Len(ICON_EXTS) : IconFile(icon_name, ICON_EXTS[e]) \in files}

\* lines 56-60: the first directory of the walk of base with a file
DirsIn(icon_name, base) ==
    {d \in 1..Len(Walk(base)) : ExtsIn(icon_name, Walk(base)[d].files) # {}}

Least(S) == CHOOSE x \in S : \A y \in S : x <= y

\* the loop over the extensions outside the loop over the paths
search_icon_ext_outer(icon_name, paths) ==
    LET Has(e, b) ==
            {d \in 1..Len(Walk(paths[b])) :
                IconFile(icon_name, ICON_EXTS[e]) \in Walk(paths[b])[d].files}
        exts == {e \in 1..Len(ICON_EXTS) : \E b \in 1..Len(paths) : Has(e, b) # {}}
    IN  IF exts = {} THEN None
        ELSE LET e == Least(exts)
                 b == Least({x \in 1..Len(paths) : Has(e, x) # {}})
             IN  <<Walk(paths[b])[Least(Has(e, b))].root, IconFile(icon_name, ICON_EXTS[e])>>

\* within one base, the loop over the extensions outside the walk
search_icon_ext_over_walk(icon_name, paths) ==
    LET bases == {b \in 1..Len(paths) : DirsIn(icon_name, paths[b]) # {}}
    IN  IF bases = {} THEN None
        ELSE LET base == paths[Least(bases)]
                 Has(e) == {d \in 1..Len(Walk(base)) :
                               IconFile(icon_name, ICON_EXTS[e]) \in Walk(base)[d].files}
                 e == Least({x \in 1..Len(ICON_EXTS) : Has(x) # {}})
             IN  <<Walk(base)[Least(Has(e))].root, IconFile(icon_name, ICON_EXTS[e])>>

search_icon(icon_name, paths) ==
    LET bases == {b \in 1..Len(paths) : DirsIn(icon_name, paths[b]) # {}}
    IN  IF bases = {} THEN None
        ELSE LET base == paths[Least(bases)]
                 dir == Walk(base)[Least(DirsIn(icon_name, base))]
                 ext == ICON_EXTS[Least(ExtsIn(icon_name, dir.files))]
             IN  <<dir.root, IconFile(icon_name, ext)>>

\* lines 171-177, over the candidates build_icon_candidates returned
RECURSIVE FirstFound(_, _)
FirstFound(list, paths) ==
    IF list = <<>> THEN None
    ELSE IF search_icon(list[1], paths) # None THEN search_icon(list[1], paths)
    ELSE FirstFound(Tail(list), paths)

\* --------------------------------------------------------- ThemeResolver
Hicolor == <<"h", "i", "c", "o", "l", "o", "r">>

\* lines 21-29: [value, raised]; subprocess.check_output raises FileNotFoundError
\* when the tool cannot be started and CalledProcessError when it exits
\* non-zero, bytes.decode raises UnicodeDecodeError; the except clause names
\* CalledProcessError alone
get_current_icon_theme ==
    CASE themeQuery.kind = "missing" -> [value |-> None, raised |-> "FileNotFoundError"]
      [] themeQuery.kind = "nonzero" -> [value |-> Hicolor, raised |-> "none"]
      [] themeQuery.kind = "undecodable" -> [value |-> None, raised |-> "UnicodeDecodeError"]
      [] themeQuery.kind = "ok" -> [value |-> Strip(themeQuery.out), raised |-> "none"]

\* s.split(":")
RECURSIVE SplitColonFrom(_, _, _, _)
SplitColonFrom(s, i, cur, acc) ==
    IF i > Len(s) THEN Append(acc, cur)
    ELSE IF s[i] = ":" THEN SplitColonFrom(s, i + 1, <<>>, Append(acc, cur))
    ELSE SplitColonFrom(s, i + 1, Append(cur, s[i]), acc)

SplitColon(s) == SplitColonFrom(s, 1, <<>>, <<>>)

\* os.environ.get(name, default)
EnvironGet(name, default) == IF environ[name] = None THEN default ELSE environ[name]

\* lines 34-35
xdg_data_dirs == SplitColon(EnvironGet("XDG_DATA_DIRS", <<"/usr/local/share", ":", "/usr/share">>))
xdg_data_home == EnvironGet("XDG_DATA_HOME", <<"~/.local/share">>)

Pixmaps == <<"/usr/share/pixmaps">>

\* os.path.join(base, "icons", name)
IconDir(base, name) == <<base, "icons", name>>

\* lines 37-40 and 42-45: one loop over the bases, appending to paths
RECURSIVE AppendExisting(_, _, _)
AppendExisting(bases, name, paths) ==
    IF bases = <<>> THEN paths
    ELSE AppendExisting(Tail(bases), name,
                        IF IconDir(bases[1], name) \in existing
                        THEN Append(paths, IconDir(bases[1], name))
                        ELSE paths)

\* the hicolor directories appended before the theme's
get_icon_search_paths_hicolor_first(name) ==
    LET bases == <<xdg_data_home>> \o xdg_data_dirs
        generic == AppendExisting(bases, Hicolor, <<>>)
        both == AppendExisting(bases, name, generic)
    IN  IF Pixmaps \in existing THEN Append(both, Pixmaps) ELSE both

get_icon_search_paths(name) ==
    LET bases == <<xdg_data_home>> \o xdg_data_dirs
        themed == AppendExisting(bases, name, <<>>)
        both == AppendExisting(bases, Hicolor, themed)
    IN  IF Pixmaps \in existing THEN Append(both, Pixmaps) ELSE both

\* ------------------------------------------------------ window enumeration
\* str.splitlines(), the line ends being Newline
RECURSIVE SplitLinesFrom(_, _, _, _)
SplitLinesFrom(s, i, cur, acc) ==
    IF i > Len(s) THEN (IF cur = <<>> THEN acc ELSE Append(acc, cur))
    ELSE IF s[i] = Newline THEN SplitLinesFrom(s, i + 1, <<>>, Append(acc, cur))
    ELSE SplitLinesFrom(s, i + 1, Append(cur, s[i]), acc)

SplitLines(s) == SplitLinesFrom(s, 1, <<>>, <<>>)

\* str.split(None, n): at most n words, then the rest of the string without
\* its leading whitespace, when anything is left
RECURSIVE SplitMaxFrom(_, _, _, _, _)
SplitMaxFrom(s, i, n, cur, acc) ==
    IF i > Len(s) THEN (IF cur = <<>> THEN acc ELSE Append(acc, cur))
    ELSE IF cur = <<>> /\ s[i] \in Whitespace THEN SplitMaxFrom(s, i + 1, n, cur, acc)
    ELSE IF cur = <<>> /\ Len(acc) = n THEN Append(acc, SubSeq(s, i, Len(s)))
    ELSE IF s[i] \in Whitespace THEN SplitMaxFrom(s, i + 1, n, <<>>, Append(acc, cur))
    ELSE SplitMaxFrom(s, i + 1, n, Append(cur, s[i]), acc)

SplitMax(s, n) == SplitMaxFrom(s, 1, n, <<>>, <<>>)

\* lines 71-77
RECURSIVE ParseWindows(_)
ParseWindows(lines) ==
    IF lines = <<>> THEN <<>>
    ELSE LET parts == SplitMax(lines[1], 4)
         IN  (IF Len(parts) < 5 THEN <<>>
              ELSE <<[win_id |-> parts[1],
                      exe_name |-> Lower(AfterLast(parts[2], ".")),
                      win_name |-> parts[5]]>>)
             \o ParseWindows(Tail(lines))

\* lines 64-78: [value, raised], the except clause naming CalledProcessError alone
get_running_windows ==
    CASE wmctrl.kind = "missing" -> [value |-> <<>>, raised |-> "FileNotFoundError"]
      [] wmctrl.kind = "nonzero" -> [value |-> <<>>, raised |-> "none"]
      [] wmctrl.kind = "undecodable" -> [value |-> <<>>, raised |-> "UnicodeDecodeError"]
      [] wmctrl.kind = "ok" -> [value |-> ParseWindows(SplitLines(wmctrl.out)), raised |-> "none"]

\* ------------------------------------------------------------ icon loading
DotSvg == <<".", "s", "v", "g">>

\* lines 180-194: [value, raised]; cairosvg.svg2png and Image.open of the svg
\* branch are outside any try
load_icon(path) ==
    IF path = None THEN [value |-> "placeholder", raised |-> "none"]
    ELSE IF EndsWith(Lower(path[2]), DotSvg)
         THEN (IF path \in decodable THEN [value |-> "icon", raised |-> "none"]
               ELSE [value |-> None, raised |-> "Exception"])
         ELSE (IF path \in decodable THEN [value |-> "icon", raised |-> "none"]
               ELSE [value |-> "placeholder", raised |-> "none"])

\* ------------------------------------------------------------------ main
\* what the run reads and never writes
world == <<themeQuery, environ, existing, tree, wmctrl, listdir, fileText, decodable>>

\* main, line 202: theme = get_current_icon_theme()
GetCurrentIconTheme ==
    /\ pc = "theme"
    /\ IF get_current_icon_theme.raised # "none"
       THEN /\ err' = get_current_icon_theme.raised
            /\ pc' = "crashed"
            /\ UNCHANGED theme
       ELSE /\ theme' = get_current_icon_theme.value
            /\ pc' = "search_paths"
            /\ UNCHANGED err
    /\ UNCHANGED <<world, search_paths, windows, idx, last_word, desktop_file,
                   cands, icon_path, img, icons>>

\* main, line 203: search_paths = get_icon_search_paths(theme)
GetIconSearchPaths ==
    /\ pc = "search_paths"
    /\ search_paths' = get_icon_search_paths(theme)
    /\ pc' = "windows"
    /\ UNCHANGED <<world, err, theme, windows, idx, last_word, desktop_file,
                   cands, icon_path, img, icons>>

\* main, line 204 and the head of the loop of line 226
GetRunningWindows ==
    /\ pc = "windows"
    /\ IF get_running_windows.raised # "none"
       THEN /\ err' = get_running_windows.raised
            /\ pc' = "crashed"
            /\ UNCHANGED <<windows, idx>>
       ELSE /\ windows' = get_running_windows.value
            /\ idx' = 1
            /\ pc' = IF windows' = <<>> THEN "mainloop" ELSE "extract"
            /\ UNCHANGED err
    /\ UNCHANGED <<world, theme, search_paths, last_word, desktop_file,
                   cands, icon_path, img, icons>>

\* main, line 227: last_word = extract_last_word_after_dash(win_name)
ExtractLastWord ==
    /\ pc = "extract"
    /\ last_word' = extract_last_word_after_dash(windows[idx].win_name)
    /\ pc' = "find_desktop_file"
    /\ UNCHANGED <<world, err, theme, search_paths, windows, idx, desktop_file,
                   cands, icon_path, img, icons>>

\* main, line 228: desktop_file = find_desktop_file(last_word)
FindDesktopFile ==
    /\ pc = "find_desktop_file"
    /\ desktop_file' = find_desktop_file(last_word)
    /\ pc' = "candidates"
    /\ UNCHANGED <<world, err, theme, search_paths, windows, idx, last_word,
                   cands, icon_path, img, icons>>

\* get_icon_path, line 172: build_icon_candidates(desktop_file, exe_name, last_word)
BuildIconCandidates ==
    /\ pc = "candidates"
    /\ cands' = build_icon_candidates(desktop_file, windows[idx].exe_name, last_word)
    /\ pc' = "search"
    /\ UNCHANGED <<world, err, theme, search_paths, windows, idx, last_word,
                   desktop_file, icon_path, img, icons>>

\* get_icon_path, lines 172-177: the loop over the candidates
GetIconPath ==
    /\ pc = "search"
    /\ icon_path' = FirstFound(cands, search_paths)
    /\ pc' = "load"
    /\ UNCHANGED <<world, err, theme, search_paths, windows, idx, last_word,
                   desktop_file, cands, img, icons>>

\* main, lines 231-266: img = load_icon(icon_path), the button, the next window
LoadIcon ==
    /\ pc = "load"
    /\ IF load_icon(icon_path).raised # "none"
       THEN /\ err' = load_icon(icon_path).raised
            /\ pc' = "crashed"
            /\ UNCHANGED <<img, icons, idx>>
       ELSE /\ img' = load_icon(icon_path).value
            /\ icons' = Append(icons, img')
            /\ idx' = idx + 1
            /\ pc' = IF idx < Len(windows) THEN "extract" ELSE "mainloop"
            /\ UNCHANGED err
    /\ UNCHANGED <<world, theme, search_paths, windows, last_word, desktop_file,
                   cands, icon_path>>

\* ============================================================ worlds
\* One line of wmctrl -lx: five fields, of which the code reads the second
\* as the window class and the fifth, the rest of the line, as the title.
Line(class, title) ==
    <<"0x01", " ">> \o class \o <<" ", "0", " ", "host", " ">> \o title \o <<Newline>>

\* A window title as a line of wmctrl can hold it
IsTitle(t) == t # <<>> /\ t[1] \notin Whitespace /\ ~HasChar(Newline, t)

DefaultEnviron == [XDG_DATA_DIRS |-> None, XDG_DATA_HOME |-> None]

\* the locals of the loop body before its first statement
FreshLocals ==
    /\ last_word = None /\ desktop_file = None /\ cands = <<>>
    /\ icon_path = None /\ img = "none" /\ icons = <<>>

\* main has run lines 202-204 without raising, and enters the loop
EnteredLoop ==
    /\ err = "none"
    /\ get_current_icon_theme.raised = "none"
    /\ theme = get_current_icon_theme.value
    /\ search_paths = get_icon_search_paths(theme)
    /\ get_running_windows.raised = "none"
    /\ windows = get_running_windows.value
    /\ windows # <<>>
    /\ idx = 1

\* a world with no icon directory: the theme query exits non-zero
NoIcons ==
    /\ themeQuery = [kind |-> "nonzero", out |-> <<>>]
    /\ environ = DefaultEnviron
    /\ existing = {} /\ tree = <<>> /\ decodable = {}

\* a world with no descriptor directory
NoDescriptors == listdir = <<>> /\ fileText = <<>>

\* ---------------------------------------------- SpecNormalize: every title
MaxTitleLen == 4

TitleChars == {"a", "B", " ", Tab, Hyphen, EnDash, EmDash}

InitNormalize ==
    /\ NoIcons /\ NoDescriptors
    /\ \E t \in {x \in StringsUpTo(TitleChars, MaxTitleLen) : IsTitle(x)} :
          wmctrl = [kind |-> "ok", out |-> Line(<<"x", ".", "A">>, t)]
    /\ EnteredLoop /\ FreshLocals
    /\ pc = "extract"

SpecNormalize == InitNormalize /\ [][ExtractLastWord]_vars

\* the title of the window being handled, trimmed and whitespace-collapsed
Collapsed == Join(Split(Strip(windows[idx].win_name)))

\* the longest suffix of s that holds no character of stop
SuffixAvoiding(s, stop) ==
    LET at == {i \in 1..Len(s) : s[i] \in stop}
    IN  IF at = {} THEN s
        ELSE SubSeq(s, (CHOOSE i \in at : \A j \in at : j <= i) + 1, Len(s))

Normalized == pc = "find_desktop_file"

\* C3 as stated: a title holding a separator normalizes to the last token of
\* what follows the last occurrence of any of the three separators (the empty
\* string when nothing follows it); a title holding none normalizes to the
\* trimmed, whitespace-collapsed title.
C3_LastOfAnySeparator ==
    Normalized =>
        IF \E k \in 1..3 : HasChar(Separators[k], Collapsed)
        THEN last_word = SuffixAvoiding(Collapsed, Whitespace \cup {EmDash, EnDash, Hyphen})
        ELSE last_word = Collapsed

\* C3 amended: the separator is the first of em dash, en dash, hyphen that the
\* title holds, the other two being ordinary characters; the result is the last
\* token of what follows that separator's last occurrence, the empty string when
\* no token follows it; a title holding none of the three normalizes to the
\* trimmed, whitespace-collapsed title.
C3_LastOfFirstPrioritySeparator ==
    Normalized =>
        IF HasChar(EmDash, Collapsed)
        THEN last_word = SuffixAvoiding(Collapsed, Whitespace \cup {EmDash})
        ELSE IF HasChar(EnDash, Collapsed)
        THEN last_word = SuffixAvoiding(Collapsed, Whitespace \cup {EnDash})
        ELSE IF HasChar(Hyphen, Collapsed)
        THEN last_word = SuffixAvoiding(Collapsed, Whitespace \cup {Hyphen})
        ELSE last_word = Collapsed

\* a title with an em dash and, after it, a hyphen inside the last token
C3_Witness ==
    /\ Normalized
    /\ HasChar(EmDash, Collapsed)
    /\ HasChar(Hyphen, last_word)
    /\ Len(last_word) >= 3

\* ------------------------------- SpecLocate: every layout of descriptors
MaxListing == 2

\* the sequences without repetition of at most n of names
Listings(names, n) ==
    {l \in StringsUpTo(names, n) : \A i, j \in 1..Len(l) : l[i] = l[j] => i = j}

B_desktop == <<"b">> \o DotDesktop
Bc_desktop == <<"B", " ", "c">> \o DotDesktop
B_txt == <<"b", ".", "t", "x", "t">>

DirTag == <<"1", "2", "3", "4">>

\* the text of the descriptor file of directory d: an Icon= line of its own
DescriptorText(d, file) ==
    << <<"[", "D", "]">>, <<"N", "a", "m", "e", "=", "x">>, IconKey \o <<"i", DirTag[d], file[1]>> >>

\* what a descriptor directory may be: missing, or there with a listing
DirStates(names) ==
    {[there |-> FALSE, files |-> <<>>]}
        \cup {[there |-> TRUE, files |-> l] : l \in Listings(names, MaxListing)}

\* the descriptor directories are as dirs says, in the order of DESKTOP_DIRS
Descriptors(dirs) ==
    LET present == {d \in 1..Len(dirs) : dirs[d].there}
    IN  /\ listdir = [dir \in {DESKTOP_DIRS[d] : d \in present} |->
                         dirs[CHOOSE d \in present : DESKTOP_DIRS[d] = dir].files]
        /\ fileText = [f \in UNION {{<<DESKTOP_DIRS[d], dirs[d].files[k]>> :
                                        k \in 1..Len(dirs[d].files)} : d \in present}
                         |-> DescriptorText(CHOOSE d \in present : DESKTOP_DIRS[d] = f[1], f[2])]

LocateTitles ==
    { <<"b">>, <<"c">>, <<"B", " ", "c">>, <<"x", " ", "-", " ", "B", " ", "C">>, <<"z">> }

InitLocate ==
    /\ NoIcons
    /\ \E d1 \in DirStates({B_desktop, Bc_desktop, B_txt}) :
       \E d2 \in DirStates({B_desktop, Bc_desktop, B_txt}) :
       \E d3 \in DirStates({B_desktop}) :
       \E d4 \in DirStates({Bc_desktop}) :
          Descriptors(<<d1, d2, d3, d4>>)
    /\ \E t \in LocateTitles : wmctrl = [kind |-> "ok", out |-> Line(<<"x", ".", "A">>, t)]
    /\ EnteredLoop /\ FreshLocals
    /\ pc = "extract"

SpecLocate == InitLocate /\ [][ExtractLastWord \/ FindDesktopFile]_vars

Located == pc = "candidates"

\* directory dir exists and lists a descriptor whose name holds the key of last_word
HasMatch(dir) ==
    /\ dir \in DOMAIN listdir
    /\ \E k \in 1..Len(listdir[dir]) :
          /\ EndsWith(listdir[dir][k], DotDesktop)
          /\ Contains(RemoveSpaces(Lower(last_word)), RemoveSpaces(Lower(listdir[dir][k])))

\* C1 as stated: when the user-local and the system-wide directory both hold a
\* matching descriptor, the one returned is the user-local directory's.
C1_UserLocalFirst ==
    (Located /\ HasMatch("~/.local/share/applications") /\ HasMatch("/usr/share/applications"))
        => desktop_file[1] = "~/.local/share/applications"

ScanOrder ==
    <<"/usr/share/applications", "~/.local/share/applications",
      "/var/lib/flatpak/exports/share/applications", "/var/lib/snapd/desktop/applications">>

\* C1 amended: the directories are scanned system-wide first, then user-local,
\* then the flatpak and the snap export directories, and the descriptor returned
\* is the first match of the first directory in that order that holds one: when
\* the user-local and the system-wide directory both hold a match, the
\* system-wide directory's is returned.  Absent exactly when none holds a match.
C1_SystemWideFirst ==
    Located =>
        /\ (desktop_file = None) <=> (\A i \in 1..4 : ~HasMatch(ScanOrder[i]))
        /\ \A i \in 1..4 :
              (HasMatch(ScanOrder[i]) /\ \A j \in 1..(i - 1) : ~HasMatch(ScanOrder[j]))
                  => /\ desktop_file[1] = ScanOrder[i]
                     /\ \E k \in 1..Len(listdir[ScanOrder[i]]) :
                           /\ desktop_file[2] = listdir[ScanOrder[i]][k]
                           /\ \A m \in 1..(k - 1) :
                                 ~(/\ EndsWith(listdir[ScanOrder[i]][m], DotDesktop)
                                   /\ Contains(RemoveSpaces(Lower(last_word)),
                                               RemoveSpaces(Lower(listdir[ScanOrder[i]][m]))))

\* both directories hold a match, and a different one each
C1_Witness ==
    /\ Located
    /\ HasMatch("~/.local/share/applications") /\ HasMatch("/usr/share/applications")
    /\ desktop_file[1] = "/usr/share/applications"
    /\ desktop_file[2] # listdir["~/.local/share/applications"][1]

\* ------------------ SpecEmptyHint: titles that leave nothing after the dash
HintTitleChars == {"b", " ", Hyphen, EmDash}

\* the layouts of the descriptor directories, each in the order of DESKTOP_DIRS
HintLayouts ==
    LET gone == [there |-> FALSE, files |-> <<>>]
        With(l) == [there |-> TRUE, files |-> l]
    IN  {gone, With(<<>>), With(<<B_txt, Bc_desktop>>), With(<<Bc_desktop, B_desktop>>)}
        \X {gone, With(<<B_desktop>>), With(<<B_txt>>)}
        \X {gone, With(<<B_desktop>>)}
        \X {gone, With(<<Bc_desktop>>)}

InitEmptyHint ==
    /\ NoIcons
    /\ \E dirs \in HintLayouts : Descriptors(dirs)
    /\ \E t \in {x \in StringsUpTo(HintTitleChars, MaxTitleLen) : IsTitle(x)} :
          wmctrl = [kind |-> "ok", out |-> Line(<<"x", ".", "A">>, t)]
    /\ EnteredLoop /\ FreshLocals
    /\ pc = "extract"

SpecEmptyHint ==
    InitEmptyHint /\ [][ExtractLastWord \/ FindDesktopFile \/ BuildIconCandidates]_vars

\* the whitespace-collapsed title ends with the first of em dash, en dash,
\* hyphen that it holds
EndsWithItsSeparator ==
    /\ Collapsed # <<>>
    /\ \/ Collapsed[Len(Collapsed)] = EmDash
       \/ Collapsed[Len(Collapsed)] = EnDash /\ ~HasChar(EmDash, Collapsed)
       \/ /\ Collapsed[Len(Collapsed)] = Hyphen
          /\ ~HasChar(EmDash, Collapsed) /\ ~HasChar(EnDash, Collapsed)

\* file k of the listing of dir is the first descriptor of the whole scan
FirstDescriptor(dir, k) ==
    /\ dir \in DOMAIN listdir
    /\ k \in 1..Len(listdir[dir])
    /\ EndsWith(listdir[dir][k], DotDesktop)
    /\ \A m \in 1..(k - 1) : ~EndsWith(listdir[dir][m], DotDesktop)
    /\ \A i, j \in 1..4 :
          (ScanOrder[i] = dir /\ j < i /\ ScanOrder[j] \in DOMAIN listdir)
              => \A m \in 1..Len(listdir[ScanOrder[j]]) :
                    ~EndsWith(listdir[ScanOrder[j]][m], DotDesktop)

\* C10: a title whose whitespace-collapsed form ends with the highest-priority
\* separator it holds normalizes to the empty string; with the empty hint the
\* descriptor located is the first file ending in ".desktop" of the scan, absent
\* only when no scanned directory holds one; and the first candidate is then the
\* Icon= value of that descriptor.
C10_EmptyHintTakesFirstDescriptor ==
    /\ (pc \in {"find_desktop_file", "candidates", "search"} /\ EndsWithItsSeparator)
          => last_word = <<>>
    /\ (pc \in {"candidates", "search"} /\ last_word = <<>>)
          => IF \E i \in 1..4 :
                    /\ ScanOrder[i] \in DOMAIN listdir
                    /\ \E m \in 1..Len(listdir[ScanOrder[i]]) :
                          EndsWith(listdir[ScanOrder[i]][m], DotDesktop)
             THEN /\ desktop_file # None
                  /\ \E k \in 1..Len(listdir[desktop_file[1]]) :
                        /\ FirstDescriptor(desktop_file[1], k)
                        /\ desktop_file[2] = listdir[desktop_file[1]][k]
             ELSE desktop_file = None
    /\ (pc = "search" /\ last_word = <<>> /\ desktop_file # None)
          => \E n \in 1..Len(fileText[desktop_file]) :
                fileText[desktop_file][n] = IconKey \o cands[1]

\* "b -": the hint is empty and a descriptor of another application is taken
C10_Witness ==
    /\ pc = "search"
    /\ Len(Collapsed) >= 3 /\ Collapsed[1] = "b" /\ EndsWithItsSeparator
    /\ last_word = <<>>
    /\ desktop_file # None
    /\ cands[1] = <<"i", "2", "b">>

\* ------------- SpecCandidates: every declared icon, class and title hint
MaxHintLen == 3
MaxIconLen == 3

CandTitleChars == {"B", " ", Hyphen}
IconChars == {"a", "B", "."}

\* the second field of the line: the code's exe_name is "", "b", "ab"
ClassFields == {<<"x", ".">>, <<"x", ".", "B">>, <<"A", "b">>}

\* the descriptor that the title t finds, were it there
DescriptorFor(t) ==
    <<DESKTOP_DIRS[1], RemoveSpaces(Lower(extract_last_word_after_dash(t))) \o DotDesktop>>

\* what the descriptor directories hold for the title t
DescriptorCases(t) ==
    {[listdir |-> <<>>, fileText |-> <<>>],
     [listdir |-> [d \in {DESKTOP_DIRS[1]} |-> <<DescriptorFor(t)[2]>>], fileText |-> <<>>],
     [listdir |-> [d \in {DESKTOP_DIRS[1]} |-> <<DescriptorFor(t)[2]>>],
      fileText |-> [f \in {DescriptorFor(t)} |-> << <<"[", "D", "]">> >>]]}
    \cup {[listdir |-> [d \in {DESKTOP_DIRS[1]} |-> <<DescriptorFor(t)[2]>>],
           fileText |-> [f \in {DescriptorFor(t)} |-> << <<"[", "D", "]">>, IconKey \o icon >>]]
            : icon \in StringsUpTo(IconChars, MaxIconLen)}

InitCandidates ==
    /\ NoIcons
    /\ \E t \in {x \in StringsUpTo(CandTitleChars, MaxHintLen) : IsTitle(x)} :
          /\ \E class \in ClassFields : wmctrl = [kind |-> "ok", out |-> Line(class, t)]
          /\ \E case \in DescriptorCases(t) :
                listdir = case.listdir /\ fileText = case.fileText
    /\ EnteredLoop /\ FreshLocals
    /\ pc = "extract"

SpecCandidates ==
    InitCandidates /\ [][ExtractLastWord \/ FindDesktopFile \/ BuildIconCandidates]_vars

Built == pc = "search"

\* the descriptor located declares the icon s
Declares(s) ==
    /\ desktop_file # None
    /\ desktop_file \in DOMAIN fileText
    /\ \E n \in 1..Len(fileText[desktop_file]) : fileText[desktop_file][n] = IconKey \o s

\* entry c is in list, and IndexOf its first place
Among(c, list) == \E i \in 1..Len(list) : list[i] = c
IndexOf(c, list) == CHOOSE i \in 1..Len(list) : list[i] = c /\ \A j \in 1..(i - 1) : list[j] # c

\* a declared icon like "org.example.App": it holds a ".", its lowercase form
\* differs from it, something follows its last ".", and neither the exec hint
\* nor the normalized hint is its lowercase form or that post-dot substring
DottedIcon(s) ==
    /\ Declares(s)
    /\ HasChar(".", s)
    /\ Lower(s) # s
    /\ AfterLast(Lower(s), ".") # <<>>
    /\ windows[idx].exe_name \notin {Lower(s), AfterLast(Lower(s), ".")}
    /\ last_word \notin {Lower(s), AfterLast(Lower(s), ".")}

\* C4 as stated: for such a declared icon the list holds its lowercase form and
\* the post-dot substring, the lowercase form first.
C4_LowercaseBeforePostDot ==
    Built =>
        \A s \in StringsUpTo(IconChars, MaxIconLen) :
            DottedIcon(s) =>
                /\ Among(Lower(s), cands) /\ Among(AfterLast(Lower(s), "."), cands)
                /\ IndexOf(Lower(s), cands) < IndexOf(AfterLast(Lower(s), "."), cands)

\* C4 amended: the derived variants of each base entry are appended in the order
\* post-dot substring (when the lowercase form holds a "."), then lowercase
\* form, then lowercase form without spaces; for such a declared icon the list
\* holds both, the post-dot substring first, right after the base entries and
\* right before the lowercase form.
C4_PostDotBeforeLowercase ==
    Built =>
        \A s \in StringsUpTo(IconChars, MaxIconLen) :
            DottedIcon(s) =>
                /\ Among(Lower(s), cands) /\ Among(AfterLast(Lower(s), "."), cands)
                /\ IndexOf(Lower(s), cands) = IndexOf(AfterLast(Lower(s), "."), cands) + 1
                /\ \A i \in 1..(IndexOf(AfterLast(Lower(s), "."), cands) - 1) :
                      cands[i] \in {s, windows[idx].exe_name, last_word}

\* the icon "a.B" with the class "ab" and a title: "b" comes before "a.b"
C4_Witness ==
    /\ Built
    /\ DottedIcon(<<"a", ".", "B">>)
    /\ windows[idx].exe_name = <<"a", "b">>
    /\ last_word # <<>>
    /\ IndexOf(<<"b">>, cands) = 4
    /\ IndexOf(<<"a", ".", "b">>, cands) = 5

\* C5: the list holds no empty string and no two equal entries, whatever of the
\* declared icon, the exec hint and the normalized hint is there, absent or empty.
C5_NoEmptyNoDuplicate ==
    Built =>
        /\ \A i \in 1..Len(cands) : cands[i] # <<>>
        /\ \A i, j \in 1..Len(cands) : cands[i] = cands[j] => i = j

\* a declared icon ending in ".", and a title of two words that are equal once
\* lowercased and equal to the exec hint
C5_Witness ==
    /\ Built
    /\ \E s \in StringsUpTo(IconChars, MaxIconLen) :
          Declares(s) /\ s # <<>> /\ s[Len(s)] = "."
    /\ last_word = <<"B", " ", "B">>
    /\ windows[idx].exe_name = <<"b">>
    /\ Len(cands) >= 5

\* -------------------------- SpecSearch: every layout of the icon roots
MaxDirs == 2

Adw == <<"A", "d", "w">>

\* the directories that may exist, and existing is the first k of them
RootOrder ==
    <<IconDir(<<"~/.local/share">>, Adw), IconDir(<<"/usr/share">>, Hicolor),
      Pixmaps, IconDir(<<"/usr/share">>, Adw)>>

IconFiles ==
    {<<"n", ".", "p", "n", "g">>, <<"n", ".", "s", "v", "g">>,
     <<"n", ".", "g", "i", "f">>, <<"m", ".", "p", "n", "g">>}

Sum(f, n) == IF n = 0 THEN 0 ELSE
    LET S[i \in 0..n] == IF i = 0 THEN 0 ELSE S[i - 1] + f[i] IN S[n]

\* os.walk of each search path: path p yields lens[p] directories, itself the
\* first, the directories of all paths holding the file sets of files in turn
TreeOf(paths, lens, files) ==
    [b \in {paths[p] : p \in 1..Len(paths)} |->
        LET p == CHOOSE x \in 1..Len(paths) : paths[x] = b
        IN  [d \in 1..lens[p] |->
                [root |-> IF d = 1 THEN b ELSE Append(b, d),
                 files |-> files[Sum(lens, p - 1) + d]]]]

InitSearch ==
    /\ themeQuery = [kind |-> "ok", out |-> Adw \o <<Newline>>]
    /\ environ = DefaultEnviron
    /\ decodable = {}
    /\ NoDescriptors
    /\ wmctrl = [kind |-> "ok", out |-> Line(<<"x", ".", "N">>, <<"-">>)]
    /\ \E k \in 0..MaxDirs :
          /\ k <= Len(RootOrder)
          /\ existing = {RootOrder[i] : i \in 1..k}
          /\ \E lens \in [1..k -> 1..MaxDirs] :
                /\ Sum(lens, k) <= MaxDirs
                /\ \E files \in [1..Sum(lens, k) -> SUBSET IconFiles] :
                      tree = TreeOf(get_icon_search_paths(Adw), lens, files)
    /\ EnteredLoop
    /\ last_word = extract_last_word_after_dash(windows[idx].win_name)
    /\ desktop_file = find_desktop_file(last_word)
    /\ cands = build_icon_candidates(desktop_file, windows[idx].exe_name, last_word)
    /\ icon_path = None /\ img = "none" /\ icons = <<>>
    /\ pc = "search"

SpecSearch == InitSearch /\ [][GetIconPath]_vars

Searched == pc = "load"

ExtPriority ==
    << <<"p", "n", "g">>, <<"s", "v", "g">>, <<"x", "p", "m">>, <<"j", "p", "g">>,
       <<"j", "p", "e", "g">>, <<"b", "m", "p">>, <<"g", "i", "f">> >>

\* the places in ExtPriority of the extensions with which files holds the icon
\* of the one candidate
ExtsHeld(files) == {e \in 1..7 : cands[1] \o <<".">> \o ExtPriority[e] \in files}

\* the subtree of search path p holds the icon under some extension
RootHolds(p) ==
    \E d \in 1..Len(tree[search_paths[p]]) : ExtsHeld(tree[search_paths[p]][d].files) # {}

FirstRoot(p) == RootHolds(p) /\ \A q \in 1..(p - 1) : ~RootHolds(q)

\* C6: the path returned lies under the first search root whose subtree holds
\* the icon under any recognized extension, whatever the later roots hold; and
\* absent is returned exactly when no root's subtree holds it under any.
C6_RootOrderDominates ==
    Searched =>
        /\ (icon_path = None) <=> (\A p \in 1..Len(search_paths) : ~RootHolds(p))
        /\ \A p \in 1..Len(search_paths) :
              FirstRoot(p) =>
                  \E d \in 1..Len(tree[search_paths[p]]) :
                      /\ icon_path[1] = tree[search_paths[p]][d].root
                      /\ icon_path[2] \in tree[search_paths[p]][d].files
                      /\ \E e \in 1..7 : icon_path[2] = cands[1] \o <<".">> \o ExtPriority[e]

\* the first root holds the icon as svg or gif only, the second as png
C6_Witness ==
    /\ Searched
    /\ Len(search_paths) = 2
    /\ Len(tree[search_paths[1]]) = 1 /\ Len(tree[search_paths[2]]) = 1
    /\ ExtsHeld(tree[search_paths[1]][1].files) \in {{2}, {7}, {2, 7}}
    /\ 1 \in ExtsHeld(tree[search_paths[2]][1].files)
    /\ icon_path[1] = search_paths[1]

\* C7 as stated: within the first root that holds the icon, the file returned
\* has the best extension that the whole subtree of the root holds.
C7_ExtensionOverSubtree ==
    Searched =>
        \A p \in 1..Len(search_paths) :
            FirstRoot(p) =>
                \A d \in 1..Len(tree[search_paths[p]]) :
                    \A e \in ExtsHeld(tree[search_paths[p]][d].files) :
                        \E f \in 1..e : icon_path[2] = cands[1] \o <<".">> \o ExtPriority[f]

\* C7 amended: within a search root the order of the traversal comes before the
\* order of the extensions: the file returned lies in the first directory of
\* the walk that holds the icon under any recognized extension, and has the
\* best extension in the order png, svg, xpm, jpg, jpeg, bmp, gif among those
\* that this one directory holds.
C7_ExtensionWithinDirectory ==
    Searched =>
        \A p \in 1..Len(search_paths) :
            FirstRoot(p) =>
                \A d \in 1..Len(tree[search_paths[p]]) :
                    (/\ ExtsHeld(tree[search_paths[p]][d].files) # {}
                     /\ \A c \in 1..(d - 1) : ExtsHeld(tree[search_paths[p]][c].files) = {})
                        => /\ icon_path[1] = tree[search_paths[p]][d].root
                           /\ \E e \in ExtsHeld(tree[search_paths[p]][d].files) :
                                 /\ icon_path[2] = cands[1] \o <<".">> \o ExtPriority[e]
                                 /\ \A f \in ExtsHeld(tree[search_paths[p]][d].files) : e <= f

\* one root, whose first directory holds the svg and the gif and whose second
\* holds the png: the svg of the first is returned
C7_Witness ==
    /\ Searched
    /\ Len(search_paths) = 1
    /\ Len(tree[search_paths[1]]) = 2
    /\ ExtsHeld(tree[search_paths[1]][1].files) = {2, 7}
    /\ 1 \in ExtsHeld(tree[search_paths[1]][2].files)
    /\ icon_path = <<search_paths[1], <<"n", ".", "s", "v", "g">> >>

\* ------------ SpecPaths: every theme query, data-root list and directory set
MaxEnvLen == 2

\* the characters of XDG_DATA_DIRS: two directory names and the colon
EnvChars == {"/usr/share", "/opt", ":"}

ThemeQueries ==
    {[kind |-> "missing", out |-> <<>>],
     [kind |-> "nonzero", out |-> <<>>],
     [kind |-> "undecodable", out |-> <<"0xff">>],
     [kind |-> "ok", out |-> Adw \o <<Newline>>],
     [kind |-> "ok", out |-> <<" ">> \o Hicolor \o <<Newline>>]}

\* the directories get_icon_search_paths may ask for, the theme being name
Asked(name) ==
    {IconDir((<<xdg_data_home>> \o xdg_data_dirs)[i], n) :
        i \in 1..(1 + Len(xdg_data_dirs)), n \in {name, Hicolor}} \cup {Pixmaps}

InitPaths ==
    /\ themeQuery \in ThemeQueries
    /\ \E dirs \in {None} \cup StringsUpTo(EnvChars, MaxEnvLen) :
       \E home \in {None, <<"/opt">>} :
          environ = [XDG_DATA_DIRS |-> dirs, XDG_DATA_HOME |-> home]
    /\ existing \in SUBSET Asked(IF themeQuery.kind = "ok" THEN Strip(themeQuery.out) ELSE Hicolor)
    /\ tree = <<>> /\ decodable = {}
    /\ wmctrl = [kind |-> "nonzero", out |-> <<>>]
    /\ NoDescriptors
    /\ err = "none" /\ theme = None /\ search_paths = <<>>
    /\ windows = <<>> /\ idx = 0
    /\ FreshLocals
    /\ pc = "theme"

SpecPaths == InitPaths /\ [][GetCurrentIconTheme \/ GetIconSearchPaths]_vars

\* C2: whenever the theme query fails (the tool is missing, it exits non-zero,
\* its output cannot be decoded) currentTheme returns "hicolor", and the failure
\* does not leave it as an uncaught error.
C2_HicolorOnAnyFailure ==
    (pc # "theme" /\ themeQuery.kind # "ok") => (pc # "crashed" /\ theme = Hicolor)

Expanded == pc = "windows"

\* the data roots in order: the user's, then the system's
DataRoots == <<xdg_data_home>> \o xdg_data_dirs

Existing(p) == p \in existing

\* C8: the list holds existing directories only and is the existing
\* <root>/icons/<theme> in data-root order, then the existing
\* <root>/icons/hicolor in data-root order, then the pixmaps directory if it
\* exists.
C8_ThemeThenHicolorThenPixmaps ==
    Expanded =>
        /\ \A i \in 1..Len(search_paths) : search_paths[i] \in existing
        /\ search_paths =
              SelectSeq([i \in 1..Len(DataRoots) |-> <<DataRoots[i], "icons", theme>>], Existing)
              \o SelectSeq([i \in 1..Len(DataRoots) |-> <<DataRoots[i], "icons", Hicolor>>], Existing)
              \o (IF <<"/usr/share/pixmaps">> \in existing THEN << <<"/usr/share/pixmaps">> >> ELSE <<>>)

\* three data roots of which one has no directory of the theme; a directory of
\* the theme, one of hicolor and the pixmaps directory are listed
C8_Witness ==
    /\ Expanded
    /\ theme = Adw
    /\ Len(DataRoots) = 3
    /\ \E i \in 1..3 : <<DataRoots[i], "icons", Adw>> \notin existing
    /\ Len(search_paths) >= 4
    /\ search_paths[1][3] = Adw
    /\ search_paths[Len(search_paths) - 1][3] = Hicolor
    /\ search_paths[Len(search_paths)] = Pixmaps

\* ------------------------------------------------- Spec: the whole of main
\* the icon directories of the machine, each one directory deep
MainTree ==
    LET home == IconDir(<<"~/.local/share">>, Adw)
        generic == IconDir(<<"/usr/share">>, Hicolor)
    IN  [b \in {home, generic, Pixmaps} |->
            IF b = home THEN <<[root |-> home, files |-> {<<"n", ".", "s", "v", "g">>}]>>
            ELSE IF b = generic
            THEN <<[root |-> generic,
                    files |-> {<<"n", ".", "p", "n", "g">>, <<"i", "2", "b", ".", "s", "v", "g">>}]>>
            ELSE <<[root |-> Pixmaps, files |-> {<<"m", ".", "p", "n", "g">>}]>>]

\* the icon files of MainTree
MainIcons ==
    UNION {{<<MainTree[b][1].root, f>> : f \in MainTree[b][1].files} : b \in DOMAIN MainTree}

\* what wmctrl may do: fail in each way, list two windows, list one window
\* after a line of fewer than five fields
WindowLists ==
    {[kind |-> "missing", out |-> <<>>],
     [kind |-> "nonzero", out |-> <<>>],
     [kind |-> "undecodable", out |-> <<"0xff">>],
     [kind |-> "ok", out |-> Line(<<"x", ".", "N">>, <<"b", " ", "-">>)
                             \o Line(<<"M">>, <<"d", " ", "-", " ", "B", " ", "c">>)],
     [kind |-> "ok", out |-> <<"0x02", " ", "y", " ", "0", Newline>>
                             \o Line(<<"x", ".", "N">>, <<"z">>)]}

MainLayouts ==
    LET gone == [there |-> FALSE, files |-> <<>>]
        With(l) == [there |-> TRUE, files |-> l]
    IN  {<<gone, gone, gone, gone>>,
         <<With(<<B_txt>>), With(<<B_desktop, Bc_desktop>>), gone, gone>>,
         <<With(<<Bc_desktop>>), gone, With(<<B_desktop>>), gone>>}

Init ==
    /\ themeQuery \in ThemeQueries
    /\ environ = DefaultEnviron
    /\ existing \in SUBSET (DOMAIN MainTree)
    /\ tree = MainTree
    /\ decodable \in SUBSET MainIcons
    /\ wmctrl \in WindowLists
    /\ \E dirs \in MainLayouts : Descriptors(dirs)
    /\ err = "none" /\ theme = None /\ search_paths = <<>>
    /\ windows = <<>> /\ idx = 0
    /\ FreshLocals
    /\ pc = "theme"

Next ==
    \/ GetCurrentIconTheme
    \/ GetIconSearchPaths
    \/ GetRunningWindows
    \/ ExtractLastWord
    \/ FindDesktopFile
    \/ BuildIconCandidates
    \/ GetIconPath
    \/ LoadIcon

Spec == Init /\ [][Next]_vars

\* C9: whatever fails, the run reaches no uncaught error and ends with an image
\* for every window, the icon found or the placeholder.  Stated for the runs in
\* which the theme query raises nothing, the failures of the theme query being
\* the matter of C2.
C9_NoFatalCondition ==
    themeQuery.kind \in {"ok", "nonzero"} =>
        /\ pc # "crashed"
        /\ pc = "mainloop" => Len(icons) = Len(windows)

====
